---- MODULE Spec2Model ----
(***************************************************************************)
(* DevBox session lifecycle manager (GoodieHART/DevBox).                   *)
(*                                                                         *)
(* Three specifications over one set of variables:                         *)
(*   SpecIdle    the idle/liveness monitor loops of shared_runtime.py      *)
(*   SpecArchive create_backup / restore_backup of backup_utils.py         *)
(*   Spec        the session controllers (shared_runtime.py and devbox.py) *)
(*               from container start to process exit                      *)
(***************************************************************************)
EXTENDS Integers, Sequences, FiniteSets, TLC

VARIABLES
    \* ---- idle monitor (SpecIdle)
    loop,         \* which loop runs: "ssh" (terminal) or "rdp" (desktop)
    idle_time,    \* the loop's idle_time local
    ipc,          \* "loop": inside the while; "returned"; "raised"; "off"
    ticks,        \* completed loop iterations (history)
    sinceDetect,  \* completed iterations since the last detection or loop start
    lastTick,     \* what the most recent iteration did (history)
    \* ---- file system and durable volume (SpecArchive, Spec)
    fs,           \* the container's file system: path -> entry, existing paths only
    archive,      \* /data/root_full_backup.tar.gz: NoArchive or member -> entry
    \* ---- archiver round trip (SpecArchive)
    rt,           \* phase and remembered tree of the round trip
    \* ---- session controller (Spec)
    ctl           \* the controller's position, arguments and history

idleVars == <<loop, idle_time, ipc, ticks, sinceDetect, lastTick>>
vars == <<loop, idle_time, ipc, ticks, sinceDetect, lastTick, fs, archive, rt, ctl>>

(***************************************************************************)
(* Bounds of the model.                                                    *)
(***************************************************************************)
\* Iterations of an idle loop that are followed.
MaxTicks == 24

\* The idle loops with their two values as parameters: the largest check
\* interval and the largest timeout.
MaxInterval == 4

MaxTimeout == 9

\* Sessions attached at a probe.
MaxAttached == 1

\* Entries chosen for the home tree that SpecArchive archives.
MaxTreeEntries == 2

\* Entries chosen for the home tree of the container image in Spec.
MaxImageEntries == 1

\* Entries chosen for the tree of an archive the volume holds at the first
\* launch in Spec (later archives are whatever the sessions write).
MaxArchiveEntries == 0

\* Successive calls of inject_ssh_key in SpecInject.
MaxCalls == 3

\* Successive runs of the overlay in SpecOverlay.
MaxOverlayRuns == 2

\* Writes a user makes through home-side paths in one behaviour.
MaxWrites == 1

\* Launches of one box that are followed in Spec.
MaxSessions == 2

(***************************************************************************)
(* Idle / liveness monitor.                                                *)
(***************************************************************************)
IDLE_TIMEOUT_SECONDS == 300

SSH_SLEEP_SECONDS == 15

RDP_CHECK_INTERVAL == 15

Loops == {"ssh", "rdp"}

\* The poll period of each loop: the literal 15 of the terminal loop, the
\* check_interval local of the desktop loop.
CheckInterval(l) == IF l = "ssh" THEN SSH_SLEEP_SECONDS ELSE RDP_CHECK_INTERVAL

\* while idle_time < IDLE_TIMEOUT_SECONDS
LoopCond_off_by_one(idle) == idle <= IDLE_TIMEOUT_SECONDS

LoopCond(idle) == idle < IDLE_TIMEOUT_SECONDS

\* idle_time = 0
OnSession_no_reset(idle) == idle

OnSession(idle) == 0

\* idle_time += 15 / idle_time += check_interval
OnIdle_elapsed(idle, interval) == idle + interval + 1

OnIdle(idle, interval) == idle + interval

\* How one run of the probe command can end.
\*   "ok"        the pipeline ran
\*   "cmd_error" ps exits with an error and prints nothing on stdout
\*   "garbled"   (desktop) the count is missing from stdout: not an integer
\*   "raise"     subprocess.run itself raises (the shell cannot be started)
SshOutcomes == {"ok", "cmd_error", "raise"}

RdpOutcomes == {"ok", "cmd_error", "garbled", "raise"}

\* ps -ef | grep 'sshd: root@' | grep -v grep : stdout is non-empty exactly
\* when some process line of an attached session passes both greps (the
\* shell's and the greps' own lines hold the word grep and are dropped).
SshStdoutNonEmpty(attached, outcome) == outcome = "ok" /\ attached > 0

\* ps aux | grep -c 'xrdp-sesman.*:' | grep -v grep : grep -c prints the
\* number of matching lines; that one line holds no "grep" and passes the
\* last filter.  The shell started for the pipeline (sh -c "<the command>")
\* carries the pattern, followed by a colon, in its own command line, and so
\* does the grep -c process when ps sees it: selfMatch of the counted lines
\* are the probe's own.  With ps failing grep -c counts no line and prints 0.
SelfMatches == {1, 2}

RdpStdout(attached, outcome, selfMatch) ==
    CASE outcome = "ok"        -> [num |-> TRUE,  val |-> attached + selfMatch]
      [] outcome = "cmd_error" -> [num |-> TRUE,  val |-> 0]
      [] OTHER                 -> [num |-> FALSE, val |-> 0]

NoTick == [kind |-> "none", outcome |-> "none", before |-> 0, attached |-> 0]

\* After the body of an iteration the while condition is tested again.
AfterBody(newIdle, kind, outcome, attached) ==
    /\ idle_time' = newIdle
    /\ ipc' = IF LoopCond(newIdle) THEN "loop" ELSE "returned"
    /\ ticks' = ticks + 1
    /\ sinceDetect' = IF kind = "session" THEN 0 ELSE sinceDetect + 1
    /\ lastTick' = [kind |-> kind, outcome |-> outcome, before |-> idle_time,
                    attached |-> attached]
    /\ UNCHANGED <<loop, fs, archive, rt, ctl>>

TickGuard == ipc = "loop" /\ LoopCond(idle_time) /\ ticks < MaxTicks

\* subprocess.run raises: neither loop catches it (the desktop loop's try
\* starts after the call), so the exception leaves the loop.
TickRaise ==
    /\ TickGuard
    /\ ipc' = "raised"
    /\ lastTick' = [kind |-> "raise", outcome |-> "raise", before |-> idle_time,
                    attached |-> 0]
    /\ UNCHANGED <<loop, idle_time, ticks, sinceDetect, fs, archive, rt, ctl>>

\* Terminal loop, one iteration.
SshTick ==
    /\ TickGuard
    /\ loop = "ssh"
    /\ \E attached \in 0..MaxAttached, outcome \in SshOutcomes \ {"raise"} :
         IF SshStdoutNonEmpty(attached, outcome)
         THEN AfterBody(OnSession(idle_time), "session", outcome, attached)
         ELSE AfterBody(OnIdle(idle_time, CheckInterval("ssh")), "idle", outcome, attached)

\* Desktop loop, one iteration.
RdpTick ==
    /\ TickGuard
    /\ loop = "rdp"
    /\ \E attached \in 0..MaxAttached, outcome \in RdpOutcomes \ {"raise"},
          selfMatch \in SelfMatches :
         LET out == RdpStdout(attached, outcome, selfMatch) IN
         IF ~out.num
         THEN AfterBody(OnIdle(idle_time, CheckInterval("rdp")), "parse_error", outcome, attached)
         ELSE IF out.val > 0
              THEN AfterBody(OnSession(idle_time), "session", outcome, attached)
              ELSE AfterBody(OnIdle(idle_time, CheckInterval("rdp")), "idle", outcome, attached)

IdleOff ==
    /\ loop = "ssh" /\ idle_time = 0 /\ ipc = "off"
    /\ ticks = 0 /\ sinceDetect = 0 /\ lastTick = NoTick

FsOff == fs = <<>> /\ archive = <<>>

InitIdle ==
    /\ loop \in Loops
    /\ idle_time = 0
    /\ ipc = IF LoopCond(0) THEN "loop" ELSE "returned"
    /\ ticks = 0
    /\ sinceDetect = 0
    /\ lastTick = NoTick
    /\ FsOff
    /\ rt = <<>>
    /\ ctl = <<>>

NextIdle == SshTick \/ RdpTick \/ TickRaise

SpecIdle == InitIdle /\ [][NextIdle]_vars

(***************************************************************************)
(* The same two loops with the check interval and the timeout as           *)
(* parameters (SpecIdleParam): rt holds the two values and the last        *)
(* "remaining" a tick has computed.                                        *)
(***************************************************************************)
\* while idle_time < <timeout>
LoopCondFor_le(idle, timeout) == idle <= timeout

LoopCondFor(idle, timeout) == idle < timeout

\* remaining = <timeout> - idle_time
Remaining(timeout, idle) == timeout - idle

InitIdleParam ==
    /\ loop \in Loops
    /\ idle_time = 0
    /\ ticks = 0
    /\ sinceDetect = 0
    /\ lastTick = NoTick
    /\ FsOff
    /\ ctl = <<>>
    /\ \E interval \in 1..MaxInterval, timeout \in 1..MaxTimeout :
         /\ rt = [interval |-> interval, timeout |-> timeout,
                  printed |-> FALSE, remaining |-> 0]
         /\ ipc = IF LoopCondFor(0, timeout) THEN "loop" ELSE "returned"

\* The body has run: the counter is newIdle, and a tick that found no
\* session has computed (and printed) the remaining time.
ParamAfterBody(newIdle, kind, outcome, attached, prints) ==
    /\ idle_time' = newIdle
    /\ ipc' = IF LoopCondFor(newIdle, rt.timeout) THEN "loop" ELSE "returned"
    /\ ticks' = ticks + 1
    /\ sinceDetect' = IF kind = "session" THEN 0 ELSE sinceDetect + 1
    /\ lastTick' = [kind |-> kind, outcome |-> outcome, before |-> idle_time,
                    attached |-> attached]
    /\ rt' = IF prints
             THEN [rt EXCEPT !.printed = TRUE,
                             !.remaining = Remaining(rt.timeout, newIdle)]
             ELSE rt
    /\ UNCHANGED <<loop, fs, archive, ctl>>

ParamGuard == ipc = "loop" /\ LoopCondFor(idle_time, rt.timeout) /\ ticks < MaxTicks

\* Terminal loop, one iteration.
ParamSshTick ==
    /\ ParamGuard
    /\ loop = "ssh"
    /\ \E attached \in 0..MaxAttached, outcome \in SshOutcomes \ {"raise"} :
         IF SshStdoutNonEmpty(attached, outcome)
         THEN ParamAfterBody(OnSession(idle_time), "session", outcome, attached, FALSE)
         ELSE ParamAfterBody(OnIdle(idle_time, rt.interval), "idle", outcome,
                             attached, TRUE)

\* Desktop loop, one iteration.
ParamRdpTick ==
    /\ ParamGuard
    /\ loop = "rdp"
    /\ \E attached \in 0..MaxAttached, outcome \in RdpOutcomes \ {"raise"},
          selfMatch \in SelfMatches :
         LET out == RdpStdout(attached, outcome, selfMatch) IN
         IF ~out.num
         THEN ParamAfterBody(OnIdle(idle_time, rt.interval), "parse_error",
                             outcome, attached, FALSE)
         ELSE IF out.val > 0
              THEN ParamAfterBody(OnSession(idle_time), "session", outcome,
                                  attached, FALSE)
              ELSE ParamAfterBody(OnIdle(idle_time, rt.interval), "idle",
                                  outcome, attached, TRUE)

NextIdleParam == ParamSshTick \/ ParamRdpTick

SpecIdleParam == InitIdleParam /\ [][NextIdleParam]_vars

(***************************************************************************)
(* File system.  A path is the sequence of its components: /root/.bashrc   *)
(* is <<"root", ".bashrc">>, / is <<>>.  fs maps each existing path to its *)
(* entry; a symbolic link is an entry of its own and is never followed     *)
(* when it is removed, archived or replaced.                               *)
(***************************************************************************)
HOME == <<"root">>

DATA == <<"data">>

\* persistent_storage_dir="/data/.config_persistence"
MIRROR == <<"data", ".config_persistence">>

LOST_FOUND == "lost+found"

MODE_SSH_DIR == 700

MODE_AUTH_KEYS == 600

File(c) == [kind |-> "file", content |-> c, mode |-> 644, target |-> <<>>]

Dir == [kind |-> "dir", content |-> <<>>, mode |-> 755, target |-> <<>>]

Link(t) == [kind |-> "link", content |-> <<>>, mode |-> 777, target |-> t]

Parent(p) == SubSeq(p, 1, Len(p) - 1)

IsPrefix(p, q) == Len(p) <= Len(q) /\ SubSeq(q, 1, Len(p)) = p

\* os.path.lexists
LExists(f, p) == p \in DOMAIN f

\* os.path.islink
IsLink(f, p) == LExists(f, p) /\ f[p].kind = "link"

\* os.path.isdir(p) and not os.path.islink(p): a real directory
IsRealDir(f, p) == p = <<>> \/ (LExists(f, p) /\ f[p].kind = "dir")

\* os.path.isdir, which follows a link at p
IsDir(f, p) ==
    \/ IsRealDir(f, p)
    \/ IsLink(f, p) /\ IsRealDir(f, f[p].target)

Put(f, p, e) == (p :> e) @@ f

\* os.remove / unlink: the entry itself
Remove(f, p) == [q \in DOMAIN f \ {p} |-> f[q]]

\* shutil.rmtree, rm -rf: the entry and everything below it
RmTree(f, p) == [q \in {r \in DOMAIN f : ~IsPrefix(p, r)} |-> f[q]]

\* os.makedirs(p, exist_ok=True), mkdir -p: creates the missing ancestors
\* and p; fails when a component exists and is not a directory.
RECURSIVE MakeDirsFrom(_, _, _, _)
MakeDirsFrom(f, p, i, mode) ==
    IF i > Len(p) THEN [ok |-> TRUE, fs |-> f]
    ELSE LET q == SubSeq(p, 1, i) IN
         IF ~LExists(f, q)
         THEN MakeDirsFrom(Put(f, q, [Dir EXCEPT !.mode = IF i = Len(p) THEN mode
                                                          ELSE 755]),
                           p, i + 1, mode)
         ELSE IF IsDir(f, q) THEN MakeDirsFrom(f, p, i + 1, mode)
         ELSE [ok |-> FALSE, fs |-> f]

MakeDirs(f, p) == MakeDirsFrom(f, p, 1, 755)

\* The entries of the tree below directory d, by their path relative to d.
TreeAt(f, d) ==
    [rel \in {SubSeq(q, Len(d) + 1, Len(q)) : q \in {r \in DOMAIN f : IsPrefix(d, r) /\ r # d}}
        |-> f[d \o rel]]

\* The tree t placed below directory d, over what is there.
Graft(f, d, t) ==
    [q \in DOMAIN f \cup {d \o rel : rel \in DOMAIN t} |->
        IF IsPrefix(d, q) /\ SubSeq(q, Len(d) + 1, Len(q)) \in DOMAIN t
        THEN t[SubSeq(q, Len(d) + 1, Len(q))]
        ELSE f[q]]

HasComponent(p, name) == \E i \in 1..Len(p) : p[i] = name

(***************************************************************************)
(* Backup / restore archiver (backup_utils.py).                            *)
(***************************************************************************)
\* The archive file: absent, or a tar file with its members by relative
\* path; complete = FALSE is a file tar left unfinished.
NoArchive == [exists |-> FALSE, complete |-> FALSE, members |-> <<>>]

Archive(t) == [exists |-> TRUE, complete |-> TRUE, members |-> t]

TruncatedArchive == [exists |-> TRUE, complete |-> FALSE, members |-> <<>>]

\* tar -czf backup_file --exclude lost+found -C source_dir . : every entry
\* below source_dir by its path relative to it, but those with a component
\* lost+found.
TarCreate(f, source_dir) ==
    LET t == TreeAt(f, source_dir) IN
    [rel \in {r \in DOMAIN t : ~HasComponent(r, LOST_FOUND)} |-> t[rel]]

\* create_backup(source_dir, backup_file, exclude_patterns): tarOk is
\* whether the tar command exits 0; a failing tar raises CalledProcessError
\* inside the try, which is swallowed.  tar writes backup_file in place, so
\* a failed run leaves the old file (tar could not start) or an unfinished
\* one.
CreateBackup(f, arch, source_dir, tarOk, started) ==
    IF tarOk THEN Archive(TarCreate(f, source_dir))
    ELSE IF started THEN TruncatedArchive ELSE arch

CreateBackupReturn_propagates(tarOk) ==
    IF tarOk THEN [raised |-> FALSE, value |-> "backup_file"]
    ELSE [raised |-> TRUE, value |-> "None"]

\* How create_backup ends: it returns backup_file, or the exception of the
\* failing tar is caught by 'except Exception' and it returns None.
CreateBackupReturn(tarOk) ==
    IF tarOk THEN [raised |-> FALSE, value |-> "backup_file"]
    ELSE [raised |-> FALSE, value |-> "None"]

\* find /root -mindepth 1 -maxdepth 1 ! -name lost+found -exec rm -rf {} +
ClearHome(f) ==
    [q \in {r \in DOMAIN f :
              ~(IsPrefix(HOME, r) /\ Len(r) > Len(HOME) /\ r[Len(HOME) + 1] # LOST_FOUND)}
        |-> f[q]]

\* backup_file: "/data/root_full_backup.tar.gz".  The file itself is the
\* variable archive, not an entry of fs.
BACKUP_FILE == <<"data", "root_full_backup.tar.gz">>

\* The default of restore_backup's restore_dir parameter: "/"
RESTORE_DIR_DEFAULT == <<>>

\* The sets of members an extraction that stops early may have written:
\* tar writes a directory before what is in it.
ParentClosed(t) ==
    {S \in SUBSET DOMAIN t : \A r \in S : Len(r) > 1 => Parent(r) \in S \/ Parent(r) \notin DOMAIN t}

\* tar -xzf backup_file -C restore_dir of the members in done
TarExtract(f, t, restore_dir, done) ==
    Graft(f, restore_dir, [rel \in done |-> t[rel]])

\* restore_backup(backup_file, restore_dir): nothing without an archive;
\* otherwise /root is cleared, then the archive is extracted below
\* restore_dir.  done is the set of members written before tar ended: all
\* of them when it exits 0; a failing tar raises inside the try and the
\* exception is swallowed.
RestoreBackup(f, arch, restore_dir, done) ==
    IF ~arch.exists THEN f
    ELSE LET g == TarExtract(ClearHome(f), arch.members, restore_dir, done)
         IN [q \in DOMAIN g \ {BACKUP_FILE} |-> g[q]]

\* The archive file after restore_backup: nothing in restore_backup removes
\* or opens it for writing, but the extraction writes every member below
\* restore_dir, and a member that lands on backup_file replaces it (its
\* content is the member's, no archive any more).
ArchiveAfterRestore(arch, restore_dir, done) ==
    IF arch.exists /\ \E rel \in done : restore_dir \o rel = BACKUP_FILE
    THEN TruncatedArchive ELSE arch

\* tar -xzf exits non-zero: the archive is unreadable, or members were
\* left unwritten.
ExtractionFailed(arch, done) ==
    arch.exists /\ (~arch.complete \/ done # DOMAIN arch.members)

\* The sets of members tar can have extracted from the archive.
ExtractOutcomes(arch) ==
    IF ~arch.exists THEN {{}}
    ELSE IF arch.complete THEN ParentClosed(arch.members)
    ELSE {{}}

(***************************************************************************)
(* Home directory trees the model starts from.                             *)
(***************************************************************************)
\* File contents are sequences of characters.
STALE_KEYS == <<"o", "\n">>

TEXT == <<"x">>

\* A path with one of the entries it may hold at the start.
LeafChoices ==
    {<<<<".bashrc">>, File(TEXT)>>,
     <<<<".bashrc">>, Dir>>,
     <<<<".bashrc">>, Link(DATA)>>,
     <<<<".bashrc">>, Link(<<"gone">>)>>,
     <<<<".config", "xfce4">>, Dir>>,
     <<<<".config", "xfce4">>, File(TEXT)>>,
     <<<<".ssh", "authorized_keys">>, File(STALE_KEYS)>>,
     <<<<".ssh">>, File(TEXT)>>,
     <<<<"notes.txt">>, File(TEXT)>>,
     <<<<"data", "root_full_backup.tar.gz">>, File(TEXT)>>,
     <<<<LOST_FOUND>>, Dir>>}

\* No two choices for one path, and nothing below a path that is no directory.
Consistent(S) ==
    \A a \in S, b \in S :
        a # b => /\ a[1] # b[1]
                 /\ ~(IsPrefix(a[1], b[1]) /\ a[2].kind # "dir")

Ancestors(p) == {SubSeq(p, 1, i) : i \in 1..(Len(p) - 1)}

TreeOf(S) ==
    LET leaves == {a[1] : a \in S}
        dirs == UNION {Ancestors(p) : p \in leaves} \ leaves
    IN [p \in leaves \cup dirs |->
          IF p \in leaves THEN (CHOOSE a \in S : a[1] = p)[2] ELSE Dir]

Trees(n) ==
    {TreeOf(S) : S \in {X \in SUBSET LeafChoices : Cardinality(X) <= n /\ Consistent(X)}}

\* The directories every container has: /root and the mounted volume /data.
BaseFs == (HOME :> [Dir EXCEPT !.mode = 700]) @@ (DATA :> Dir)

WithoutLostFound(t) == [rel \in {r \in DOMAIN t : ~HasComponent(r, LOST_FOUND)} |-> t[rel]]

(***************************************************************************)
(* SpecArchive: one session's home directory is archived at exit and       *)
(* restored in the next container, as shared_runtime.py calls the archiver *)
(* (register_custom_backup("/root", "/data/root_full_backup.tar.gz") and   *)
(* restore_backup()).                                                      *)
(***************************************************************************)
InitArchive ==
    /\ IdleOff
    /\ ctl = <<>>
    /\ \E t \in Trees(MaxTreeEntries) :
         /\ fs = Graft(BaseFs, HOME, t)
         /\ rt = [phase |-> "session", tree |-> t, backupOk |-> FALSE,
                  emptyHome |-> FALSE, allExtracted |-> FALSE,
                  backupReturn |-> CreateBackupReturn(TRUE), image |-> <<>>,
                  extractFailed |-> FALSE, restoreDir |-> RESTORE_DIR_DEFAULT,
                  before |-> <<>>, archiveBefore |-> NoArchive]
    /\ archive = NoArchive

\* The exit hook of the first session: create_backup("/root", backup_file).
ArchCreateBackup ==
    /\ rt.phase = "session"
    /\ \E tarOk \in BOOLEAN, started \in BOOLEAN :
         /\ archive' = CreateBackup(fs, archive, HOME, tarOk, started)
         /\ rt' = [rt EXCEPT !.phase = "backed_up", !.backupOk = tarOk,
                             !.backupReturn = CreateBackupReturn(tarOk)]
    /\ UNCHANGED <<idleVars, fs, ctl>>

\* The next container: the volume is kept, the rest is the image's.
ArchNewContainer ==
    /\ rt.phase = "backed_up"
    /\ \E t \in Trees(1) :
         /\ fs' = Graft(BaseFs, HOME, t)
         /\ rt' = [rt EXCEPT !.phase = "fresh", !.emptyHome = (DOMAIN t = {}),
                             !.image = t]
    /\ UNCHANGED <<idleVars, archive, ctl>>

\* Values of restore_backup's restore_dir argument: the default "/", the
\* home directory, another directory.
RestoreDirs == {RESTORE_DIR_DEFAULT, HOME, DATA}

\* restore_backup(backup_file, restore_dir)
ArchRestore ==
    /\ rt.phase = "fresh"
    /\ \E done \in ExtractOutcomes(archive), restore_dir \in RestoreDirs :
         /\ fs' = RestoreBackup(fs, archive, restore_dir, done)
         /\ archive' = ArchiveAfterRestore(archive, restore_dir, done)
         /\ rt' = [rt EXCEPT !.phase = "restored", !.restoreDir = restore_dir,
                             !.before = fs, !.archiveBefore = archive,
                             !.allExtracted = (archive.exists /\ done = DOMAIN archive.members),
                             !.extractFailed = ExtractionFailed(archive, done)]
    /\ UNCHANGED <<idleVars, ctl>>

NextArchive == ArchCreateBackup \/ ArchNewContainer \/ ArchRestore

SpecArchive == InitArchive /\ [][NextArchive]_vars

(***************************************************************************)
(* Persistence overlay.                                                    *)
(***************************************************************************)
SSH_PERSISTENCE_ITEMS ==
    << <<".bash_history">>, <<".bashrc">>, <<".profile">>, <<".viminfo">>,
       <<".vimrc">>, <<".gitconfig">>, <<".ssh", "config">>,
       <<".ssh", "known_hosts">> >>

RDP_PERSISTENCE_ITEMS ==
    SSH_PERSISTENCE_ITEMS \o
    << <<".config", "xfce4">>, <<".local", "share", "xfce4">>,
       <<".cache", "sessions">>, <<"Desktop">>, <<".xsession">> >>

GEMINI_PERSISTENCE_ITEMS == SSH_PERSISTENCE_ITEMS \o << <<".config", "gemini">> >>

LLM_PERSISTENCE_ITEMS ==
    SSH_PERSISTENCE_ITEMS \o << <<".config", "llm">>, <<".models">> >>

UNSLOTH_PERSISTENCE_ITEMS ==
    SSH_PERSISTENCE_ITEMS \o << <<".config", "unsloth">>, <<".models", "unsloth">> >>

BuiltinTypes == {"ssh", "rdp", "gemini", "llm", "unsloth"}

\* persistence_configs.get(devbox_type, SSH_PERSISTENCE_ITEMS)
get_persistence_items(devbox_type) ==
    CASE devbox_type = "ssh"     -> SSH_PERSISTENCE_ITEMS
      [] devbox_type = "rdp"     -> RDP_PERSISTENCE_ITEMS
      [] devbox_type = "gemini"  -> GEMINI_PERSISTENCE_ITEMS
      [] devbox_type = "llm"     -> LLM_PERSISTENCE_ITEMS
      [] devbox_type = "unsloth" -> UNSLOTH_PERSISTENCE_ITEMS
      [] OTHER                   -> SSH_PERSISTENCE_ITEMS

\* items_to_persist of devbox.py's run_devbox_shared
DEVBOX_SSH_ITEMS ==
    SSH_PERSISTENCE_ITEMS \o
    << <<".local">>, <<".config">>, <<".vscode">>, <<".vscode-insiders">>,
       <<".npm">>, <<".gemini">>, <<".ollama">>, <<".docker">>, <<".kube">>,
       <<".aws">>, <<".azure">>,
       <<"Desktop">>, <<"Documents">>, <<"Downloads">>, <<"Pictures">>,
       <<"Videos">>, <<"Music">>,
       <<"workspace">>, <<"projects">>, <<"code">>, <<"repos">>, <<"work">>,
       <<".mozilla">>, <<".google-chrome">>, <<".chromium">>,
       <<".jetbrains">>, <<".eclipse">>, <<".atom">>, <<".sublime-text">>,
       <<".yarn">>, <<".pip">>, <<".cargo">>, <<".rustup">> >>

\* items_to_persist of launch_llamacpp_playroom (lines 924-931)
LLAMACPP_ITEMS ==
    SSH_PERSISTENCE_ITEMS \o
    << <<".gemini">>, <<".opencode">>, <<".ollama">>, <<".llama.cpp">>,
       <<".config", "xfce4">>, <<".local", "share", "xfce4">>,
       <<".cache", "sessions">>, <<"Desktop">>, <<".xsession">> >>

\* The second items_to_persist of launch_llamacpp_playroom (lines 1094-1104)
LLAMACPP_RELINK_ITEMS == SSH_PERSISTENCE_ITEMS \o << <<".ollama">> >>

\* items_to_persist of launch_gemini_cli_box in devbox.py
DEVBOX_GEMINI_ITEMS ==
    << <<".bash_history">>, <<".bashrc">>, <<".opentrader">>, <<".opencode">>,
       <<".profile">>, <<".viminfo">>, <<".vimrc">>, <<".gitconfig">>,
       <<".ssh", "config">>, <<".ssh", "known_hosts">>, <<".gemini">> >>

\* One iteration of the overlay loop.  homeParents: the loops of devbox.py
\* first create the parent of the home-side path; setup_persistence does
\* not.  A failing os call raises out of the loop: ok = FALSE, with what
\* was done so far kept.
PersistItem_link_in_mirror(f, item, homeParents) ==
    LET home_path == HOME \o item
        volume_path == MIRROR \o item
        b == MakeDirs(f, Parent(volume_path))
    IN IF ~b.ok THEN b
       ELSE [ok |-> TRUE, fs |-> Put(b.fs, volume_path, Link(home_path))]

PersistItem(f, item, homeParents) ==
    LET home_path == HOME \o item
        volume_path == MIRROR \o item
        a == IF homeParents THEN MakeDirs(f, Parent(home_path))
             ELSE [ok |-> TRUE, fs |-> f]
        b == IF a.ok THEN MakeDirs(a.fs, Parent(volume_path)) ELSE a
        c == IF ~LExists(b.fs, home_path) THEN b.fs
             ELSE IF IsRealDir(b.fs, home_path) THEN RmTree(b.fs, home_path)
             ELSE Remove(b.fs, home_path)
    IN IF ~b.ok THEN b
       ELSE IF ~IsDir(c, Parent(home_path)) THEN [ok |-> FALSE, fs |-> c]
       ELSE [ok |-> TRUE, fs |-> Put(c, home_path, Link(volume_path))]

RECURSIVE OverlayFrom(_, _, _, _)
OverlayFrom(f, items, i, homeParents) ==
    IF i > Len(items) THEN [ok |-> TRUE, fs |-> f]
    ELSE LET r == PersistItem(f, items[i], homeParents) IN
         IF r.ok THEN OverlayFrom(r.fs, items, i + 1, homeParents) ELSE r

\* The inline overlay of devbox.py: os.makedirs(persistent_storage_dir), then
\* the loop.
DevboxOverlay(f, items) ==
    LET m == MakeDirs(f, MIRROR) IN
    IF m.ok THEN OverlayFrom(m.fs, items, 1, TRUE) ELSE m

\* The names persistence_utils.py imports (lines 7-8).
PERSISTENCE_UTILS_IMPORTS == {"os", "shutil"}

\* setup_persistence(items_to_persist): its first statement prints to
\* sys.stderr, and the module never imports sys, so every call raises
\* NameError there, before the mirror directory is made or any item is
\* looked at.
SetupPersistence(f, items) ==
    IF "sys" \notin PERSISTENCE_UTILS_IMPORTS THEN [ok |-> FALSE, fs |-> f]
    ELSE LET m == MakeDirs(f, MIRROR) IN
         IF m.ok THEN OverlayFrom(m.fs, items, 1, FALSE) ELSE m

IsMirrorLink(f, item) ==
    IsLink(f, HOME \o item) /\ f[HOME \o item].target = MIRROR \o item

(***************************************************************************)
(* Credential bootstrap (inject_ssh_key; utils.py and devbox.py hold the   *)
(* same text).                                                             *)
(***************************************************************************)
SSH_DIR == <<"root", ".ssh">>

AUTH_KEYS == <<"root", ".ssh", "authorized_keys">>

Whitespace == {" ", "\n"}

RECURSIVE LStrip(_)
LStrip(str) ==
    IF str # <<>> /\ Head(str) \in Whitespace THEN LStrip(Tail(str)) ELSE str

RECURSIVE RStrip(_)
RStrip(str) ==
    IF str # <<>> /\ str[Len(str)] \in Whitespace
    THEN RStrip(SubSeq(str, 1, Len(str) - 1)) ELSE str

Strip_identity(str) == str

\* str.strip()
Strip(str) == RStrip(LStrip(str))

IsSubstring_at_start(k, str) ==
    Len(k) <= Len(str) /\ SubSeq(str, 1, Len(k)) = k

\* pubkey in existing_content
IsSubstring(k, str) ==
    \E i \in 0..(Len(str) - Len(k)) : SubSeq(str, i + 1, i + Len(k)) = k

\* The values of the PUBKEY environment variable (unset reads as "").
PubkeyEnvs == {<<>>, <<"k">>, <<"o">>}

InjectSshKey_chmod_on_append(f, env) ==
    LET pubkey == Strip(env)
        d == MakeDirsFrom(f, SSH_DIR, 1, MODE_SSH_DIR)
        f1 == IF d.ok /\ IsRealDir(d.fs, SSH_DIR)
              THEN [d.fs EXCEPT ![SSH_DIR].mode = MODE_SSH_DIR] ELSE d.fs
        present == LExists(f1, AUTH_KEYS)
        existing == IF present /\ f1[AUTH_KEYS].kind = "file"
                    THEN Strip(f1[AUTH_KEYS].content) ELSE <<>>
        old == IF present THEN f1[AUTH_KEYS].content ELSE <<>>
    IN IF pubkey = <<>> THEN [ok |-> FALSE, fs |-> f]
       ELSE IF ~d.ok THEN [ok |-> FALSE, fs |-> d.fs]
       ELSE IF present /\ f1[AUTH_KEYS].kind # "file" THEN [ok |-> FALSE, fs |-> f1]
       ELSE IF IsSubstring(pubkey, existing) THEN [ok |-> TRUE, fs |-> f1]
       ELSE [ok |-> TRUE,
             fs |-> Put(f1, AUTH_KEYS,
                        [File(old \o pubkey \o <<"\n">>) EXCEPT !.mode = MODE_AUTH_KEYS])]

\* inject_ssh_key(): ok is its return value.  Any exception inside is
\* caught and turns into False.  authorized_keys is a regular file, a
\* directory or absent in every state the model reaches.
InjectSshKey(f, env) ==
    LET pubkey == Strip(env)
        d == MakeDirsFrom(f, SSH_DIR, 1, MODE_SSH_DIR)
        f1 == IF d.ok /\ IsRealDir(d.fs, SSH_DIR)
              THEN [d.fs EXCEPT ![SSH_DIR].mode = MODE_SSH_DIR] ELSE d.fs
        present == LExists(f1, AUTH_KEYS)
        existing == IF present /\ f1[AUTH_KEYS].kind = "file"
                    THEN Strip(f1[AUTH_KEYS].content) ELSE <<>>
        old == IF present THEN f1[AUTH_KEYS].content ELSE <<>>
        written == IF IsSubstring(pubkey, existing) THEN old
                   ELSE old \o pubkey \o <<"\n">>
    IN IF pubkey = <<>> THEN [ok |-> FALSE, fs |-> f]
       ELSE IF ~d.ok THEN [ok |-> FALSE, fs |-> d.fs]
       ELSE IF present /\ f1[AUTH_KEYS].kind # "file" THEN [ok |-> FALSE, fs |-> f1]
       ELSE [ok |-> TRUE,
             fs |-> Put(f1, AUTH_KEYS, [File(written) EXCEPT !.mode = MODE_AUTH_KEYS])]

(***************************************************************************)
(* SpecInject: inject_ssh_key called again and again in one container,     *)
(* with one value of PUBKEY, on a home directory whose .ssh is in one of   *)
(* the states below.                                                       *)
(***************************************************************************)
\* Values of PUBKEY: unset or empty, only whitespace, a key, a key with
\* whitespace around it, a key that overlaps itself.
InjectEnvs ==
    {<<>>, <<" ">>, <<"\n", " ">>, <<"k">>, <<" ", "k", "\n">>, <<"k", "k">>}

\* Contents of authorized_keys before the first call.
KeyFileContents ==
    {<<>>, <<"o", "\n">>, <<"o">>, <<"k", "\n">>, <<"k">>,
     <<"o", "\n", "k", "\n">>, <<"k", " ", "o", "\n">>, <<"k", "k", "\n">>}

\* States of /root/.ssh before the first call: absent, a regular file in
\* its place, an empty directory, a directory holding authorized_keys (a
\* file with one of the contents above, or a directory of that name).
SshStates ==
    {BaseFs, Put(BaseFs, SSH_DIR, File(TEXT))}
    \cup {Put(BaseFs, SSH_DIR, [Dir EXCEPT !.mode = m]) : m \in {755, MODE_SSH_DIR}}
    \cup {Put(Put(BaseFs, SSH_DIR, [Dir EXCEPT !.mode = m]), AUTH_KEYS, e) :
            m \in {755, MODE_SSH_DIR},
            e \in {Dir} \cup {[File(c) EXCEPT !.mode = fm] :
                                c \in KeyFileContents, fm \in {644, MODE_AUTH_KEYS}}}

\* The content of authorized_keys, "" when it is no regular file.
KeyFileContent(f) ==
    IF LExists(f, AUTH_KEYS) /\ f[AUTH_KEYS].kind = "file"
    THEN f[AUTH_KEYS].content ELSE <<>>

InitInject ==
    /\ IdleOff
    /\ ctl = <<>>
    /\ archive = NoArchive
    /\ fs \in SshStates
    /\ \E env \in InjectEnvs :
         rt = [phase |-> "inject", env |-> env, calls |-> 0, ok |-> FALSE,
               allOk |-> TRUE, first |-> fs, before |-> fs]

\* One call of inject_ssh_key().
InjectCall ==
    /\ rt.phase = "inject"
    /\ rt.calls < MaxCalls
    /\ LET r == InjectSshKey(fs, rt.env) IN
         /\ fs' = r.fs
         /\ rt' = [rt EXCEPT !.calls = @ + 1, !.ok = r.ok,
                             !.allOk = @ /\ r.ok, !.before = fs]
    /\ UNCHANGED <<idleVars, archive, ctl>>

NextInject == InjectCall

SpecInject == InitInject /\ [][NextInject]_vars

(***************************************************************************)
(* Desktop environment preparation of the desktop flavors.                 *)
(***************************************************************************)
XFCE_CONFIG == <<"root", ".config", "xfce4">>

XFCE_SESSIONS == <<"root", ".cache", "sessions">>

XDG_RUNTIME == <<"tmp", "xdg-runtime">>

\* rm -rf of the two directories (check=False), mkdir -p of both
\* (check=True: a failing mkdir raises), then /tmp/xdg-runtime.
XfceSetup(f) ==
    LET a == MakeDirs(RmTree(RmTree(f, XFCE_CONFIG), XFCE_SESSIONS), XFCE_CONFIG)
        b == IF a.ok THEN MakeDirs(a.fs, XFCE_SESSIONS) ELSE a
        c == IF b.ok THEN MakeDirsFrom(b.fs, XDG_RUNTIME, 1, 700) ELSE b
    IN c

(***************************************************************************)
(* Session controllers.                                                    *)
(*   "shared_ssh"  shared_runtime.run_devbox_shared(extra, devbox_type)    *)
(*   "shared_rdp"  shared_runtime.run_rdp_devbox_shared(extra)             *)
(*   "devbox_ssh"  devbox.run_devbox_shared(extra)                         *)
(*   "devbox_rdp"  devbox.run_rdp_devbox_shared(extra)                     *)
(*   "devbox_gemini"  devbox.launch_gemini_cli_box()                       *)
(* Each is straight-line code: Steps lists its statements in source order. *)
(***************************************************************************)
Flavors ==
    {"shared_ssh", "shared_rdp", "devbox_ssh", "devbox_rdp", "devbox_gemini",
     "devbox_llamacpp"}

SharedFlavors == {"shared_ssh", "shared_rdp"}

DesktopFlavors == {"shared_rdp", "devbox_rdp"}

\* launch_rdp_desktop(gpu_type):
\* persistence_type = f"rdp_{gpu_type}" if gpu_type else "rdp"
RdpPersistenceType(gpu_type) ==
    CASE gpu_type = "none" -> "rdp"
      [] gpu_type = "t4"   -> "rdp_t4"
      [] gpu_type = "l4"   -> "rdp_l4"
      [] OTHER             -> "rdp_a10g"

\* The gpu_type values of the desktop launches that are followed: the CPU
\* desktop and launch_rdp_t4.
RdpGpuTypes == {"none", "t4"}

\* devbox_type values callers pass: the built-in names and those the
\* desktop launches of launchers.py build.
DevboxTypes == BuiltinTypes \cup {RdpPersistenceType(g) : g \in RdpGpuTypes}

\* launch_llamacpp_playroom: the statements up to the end of its first
\* loop ...
LLAMACPP_PROLOGUE ==
    <<"overlay", "download", "register", "inject", "service", "tunnel",
      "idle", "timeout">>

\* ... and the body of the for loop that follows it (lines 1106-1161): the
\* sshd start, the with modal.forward block and its while loop are
\* indented into the loop over the second item list, so they run once per
\* item.
LLAMACPP_ROUND == <<"relink", "service", "tunnel", "idle", "timeout">>

LLAMACPP_STEPS ==
    LLAMACPP_PROLOGUE \o
    [i \in 1..(Len(LLAMACPP_ROUND) * Len(LLAMACPP_RELINK_ITEMS)) |->
        LLAMACPP_ROUND[((i - 1) % Len(LLAMACPP_ROUND)) + 1]]

\* The statements of each controller, in program order.  "idle" is the
\* entry of the idle loop (idle_time = 0 up to the while), "timeout" the
\* exit of the while once the counter has reached the timeout.
Steps_inject_first(flavor) ==
    CASE flavor = "shared_ssh" ->
           <<"inject", "restore", "overlay", "register", "packages",
             "service", "tunnel", "idle", "timeout">>
      [] flavor = "shared_rdp" ->
           <<"inject", "restore", "overlay", "register", "packages", "xfce",
             "service", "tunnel", "idle", "timeout">>
      [] flavor = "devbox_ssh" ->
           <<"inject", "restore", "overlay", "register", "packages",
             "service", "tunnel", "idle", "timeout">>
      [] flavor = "devbox_gemini" ->
           <<"inject", "overlay", "service", "tunnel", "idle", "timeout">>
      [] flavor = "devbox_llamacpp" -> LLAMACPP_STEPS
      [] OTHER ->
           <<"inject", "overlay", "register", "packages", "xfce",
             "service", "tunnel", "idle", "timeout">>

Steps_overlay_first(flavor) ==
    CASE flavor = "shared_ssh" ->
           <<"overlay", "restore", "register", "inject", "packages",
             "service", "tunnel", "idle", "timeout">>
      [] flavor = "shared_rdp" ->
           <<"inject", "overlay", "restore", "register", "packages", "xfce",
             "service", "tunnel", "idle", "timeout">>
      [] flavor = "devbox_ssh" ->
           <<"overlay", "restore", "inject", "register", "packages",
             "service", "tunnel", "idle", "timeout">>
      [] flavor = "devbox_gemini" ->
           <<"inject", "overlay", "service", "tunnel", "idle", "timeout">>
      [] flavor = "devbox_llamacpp" -> LLAMACPP_STEPS
      [] OTHER ->
           <<"inject", "overlay", "register", "packages", "xfce",
             "service", "tunnel", "idle", "timeout">>

Steps_register_late(flavor) ==
    CASE flavor = "shared_ssh" ->
           <<"restore", "overlay", "inject", "packages", "register",
             "service", "tunnel", "idle", "timeout">>
      [] flavor = "shared_rdp" ->
           <<"restore", "inject", "overlay", "packages", "register",
             "xfce", "service", "tunnel", "idle", "timeout">>
      [] flavor = "devbox_ssh" ->
           <<"restore", "overlay", "inject", "packages", "register",
             "service", "tunnel", "idle", "timeout">>
      [] flavor = "devbox_gemini" ->
           <<"inject", "overlay", "service", "tunnel", "idle",
             "timeout">>
      [] flavor = "devbox_llamacpp" -> LLAMACPP_STEPS
      [] OTHER ->
           <<"inject", "overlay", "packages", "register", "xfce",
             "service", "tunnel", "idle", "timeout">>

Steps(flavor) ==
    CASE flavor = "shared_ssh" ->
           <<"restore", "overlay", "register", "inject", "packages",
             "service", "tunnel", "idle", "timeout">>
      [] flavor = "shared_rdp" ->
           <<"restore", "inject", "overlay", "register", "packages", "xfce",
             "service", "tunnel", "idle", "timeout">>
      [] flavor = "devbox_ssh" ->
           <<"restore", "overlay", "inject", "register", "packages",
             "service", "tunnel", "idle", "timeout">>
      [] flavor = "devbox_gemini" ->
           <<"inject", "overlay", "service", "tunnel", "idle", "timeout">>
      [] flavor = "devbox_llamacpp" -> LLAMACPP_STEPS
      [] OTHER ->
           <<"inject", "overlay", "register", "packages", "xfce",
             "service", "tunnel", "idle", "timeout">>

\* The item list each flavor hands to its overlay.
ProfileOf(flavor, devbox_type) ==
    CASE flavor = "shared_ssh" -> get_persistence_items(devbox_type)
      [] flavor = "devbox_ssh" -> DEVBOX_SSH_ITEMS
      [] flavor = "devbox_gemini" -> DEVBOX_GEMINI_ITEMS
      [] flavor = "devbox_llamacpp" -> LLAMACPP_ITEMS
      [] OTHER                 -> RDP_PERSISTENCE_ITEMS

\* The overlay of each flavor: setup_persistence in shared_runtime.py, the
\* inline loop in devbox.py.
Overlay(f, flavor, devbox_type) ==
    IF flavor \in SharedFlavors
    THEN SetupPersistence(f, ProfileOf(flavor, devbox_type))
    ELSE DevboxOverlay(f, ProfileOf(flavor, devbox_type))

\* devbox.py reads the global IDLE_TIMEOUT_SECONDS, which the module never
\* defines (only main() imports it, as a local): the print before the
\* while raises NameError.  shared_runtime.py imports it from config;
\* launch_llamacpp_playroom uses a local idle_timeout instead.
IdleTimeoutDefined(flavor) == flavor \in SharedFlavors \cup {"devbox_llamacpp"}

\* The devbox_type each flavor runs with: a parameter of
\* shared_runtime.run_devbox_shared only.
TypesOf(flavor) ==
    IF flavor = "shared_ssh" THEN DevboxTypes
    ELSE IF flavor \in DesktopFlavors THEN {"rdp"}
    ELSE IF flavor = "devbox_gemini" THEN {"gemini"} ELSE {"ssh"}

NewSession(flavor, devbox_type, image, n, arch) ==
    [flavor |-> flavor, devbox_type |-> devbox_type, image |-> image,
     session |-> n, pc |-> 1, status |-> "running", log |-> <<>>,
     hook |-> FALSE, pubkey |-> <<>>, injected |-> FALSE,
     service |-> FALSE, tunnel |-> FALSE, archive0 |-> arch,
     restoreFailed |-> FALSE, backups |-> 0, aptFailed |-> FALSE,
     written |-> {}, exitArchive |-> NoArchive, backupFailed |-> FALSE]

\* The controllers that neither restore the archive of the home directory
\* nor register a hook that writes it: for them the volume is taken
\* without one.
ArchiveFreeFlavors == {"devbox_gemini", "devbox_llamacpp"}

Init ==
    /\ IdleOff
    /\ rt = <<>>
    /\ \E flavor \in Flavors, image \in Trees(MaxImageEntries),
          arch \in {NoArchive, TruncatedArchive}
                     \cup {Archive(t) : t \in Trees(MaxArchiveEntries)} :
         \E devbox_type \in TypesOf(flavor) :
            /\ flavor \in ArchiveFreeFlavors => arch = NoArchive
            /\ fs = Graft(BaseFs, HOME, image)
            /\ archive = arch
            /\ ctl = NewSession(flavor, devbox_type, image, 1, arch)

At(step) ==
    /\ ctl.status = "running"
    /\ ctl.pc <= Len(Steps(ctl.flavor))
    /\ Steps(ctl.flavor)[ctl.pc] = step

\* The controller after a step: on to the next statement, or the exception
\* leaves the function, or the function returns after its last statement.
\* Either way out of the function leaves the with block of the tunnel.
Stepped(c, step, ok) ==
    LET last == c.pc = Len(Steps(c.flavor)) IN
    [c EXCEPT !.log = Append(@, [step |-> step, ok |-> ok]),
              !.pc = IF ok THEN @ + 1 ELSE @,
              !.status = IF ~ok THEN "raised" ELSE IF last THEN "returned" ELSE @,
              !.tunnel = IF ok /\ ~last THEN @ ELSE FALSE]

\* What the extraction of a session's restore step writes: every member
\* (tar exits 0) or none (tar fails on opening the archive).
RestoreOutcomes(arch) ==
    IF arch.exists /\ arch.complete THEN {DOMAIN arch.members, {}} ELSE {{}}

\* restore_backup() / the inline restore of devbox.py (same commands).  A
\* failing extraction is absorbed: the step always completes.
Restore ==
    /\ At("restore")
    /\ \E done \in RestoreOutcomes(archive) :
         /\ fs' = RestoreBackup(fs, archive, RESTORE_DIR_DEFAULT, done)
         /\ archive' = ArchiveAfterRestore(archive, RESTORE_DIR_DEFAULT, done)
         /\ ctl' = [Stepped(ctl, "restore", TRUE) EXCEPT
                       !.restoreFailed = ExtractionFailed(archive, done)]
    /\ UNCHANGED <<idleVars, rt>>

OverlayStep ==
    /\ At("overlay")
    /\ LET r == Overlay(fs, ctl.flavor, ctl.devbox_type) IN
         /\ fs' = r.fs
         /\ ctl' = Stepped(ctl, "overlay", r.ok)
    /\ UNCHANGED <<idleVars, archive, rt>>

\* register_custom_backup("/root", "/data/root_full_backup.tar.gz") /
\* atexit.register(create_root_backup)
Register ==
    /\ At("register")
    /\ ctl' = [Stepped(ctl, "register", TRUE) EXCEPT !.hook = TRUE]
    /\ UNCHANGED <<idleVars, fs, archive, rt>>

\* inject_ssh_key(): its return value is ignored by every controller.
Inject ==
    /\ At("inject")
    /\ \E env \in PubkeyEnvs :
         LET r == InjectSshKey(fs, env) IN
         /\ fs' = r.fs
         /\ ctl' = [Stepped(ctl, "inject", TRUE) EXCEPT
                       !.pubkey = Strip(env), !.injected = r.ok]
    /\ UNCHANGED <<idleVars, archive, rt>>

PackagesOk_unchecked(extra, updateOk, installOk) == TRUE

\* if extra_packages: apt-get update, apt-get install, both with
\* check=True: a non-zero exit raises CalledProcessError, which no
\* controller catches.
PackagesOk(extra, updateOk, installOk) == ~extra \/ (updateOk /\ installOk)

Packages ==
    /\ At("packages")
    /\ \E extra \in BOOLEAN, updateOk \in BOOLEAN, installOk \in BOOLEAN :
         ctl' = [Stepped(ctl, "packages", PackagesOk(extra, updateOk, installOk))
                   EXCEPT !.aptFailed = extra /\ ~(updateOk /\ installOk)]
    /\ UNCHANGED <<idleVars, fs, archive, rt>>

Xfce ==
    /\ At("xfce")
    /\ LET r == XfceSetup(fs) IN
         /\ fs' = r.fs
         /\ ctl' = Stepped(ctl, "xfce", r.ok)
    /\ UNCHANGED <<idleVars, archive, rt>>

\* /usr/sbin/sshd, or xrdp and xrdp-sesman
Service ==
    /\ At("service")
    /\ ctl' = [Stepped(ctl, "service", TRUE) EXCEPT !.service = TRUE]
    /\ UNCHANGED <<idleVars, fs, archive, rt>>

\* with modal.forward(...) as tunnel
Tunnel ==
    /\ At("tunnel")
    /\ ctl' = [Stepped(ctl, "tunnel", TRUE) EXCEPT !.tunnel = TRUE]
    /\ UNCHANGED <<idleVars, fs, archive, rt>>

\* idle_time = 0 and the statements up to the while.
IdleEntry ==
    /\ At("idle")
    /\ ctl' = Stepped(ctl, "idle", IdleTimeoutDefined(ctl.flavor))
    /\ UNCHANGED <<idleVars, fs, archive, rt>>

\* The while loop ends: the counter has reached the timeout (the loop
\* itself is the subject of SpecIdle).
IdleTimeout ==
    /\ At("timeout")
    /\ ctl' = Stepped(ctl, "timeout", TRUE)
    /\ UNCHANGED <<idleVars, fs, archive, rt>>

\* launch_llamacpp_playroom, model download: when the model file is not
\* there, curl runs with check=True, and its failure is not caught.
Download ==
    /\ At("download")
    /\ \E present \in BOOLEAN, curlOk \in BOOLEAN :
         ctl' = Stepped(ctl, "download", present \/ curlOk)
    /\ UNCHANGED <<idleVars, fs, archive, rt>>

\* The position in LLAMACPP_RELINK_ITEMS of the for loop whose body holds
\* statement pc.
RelinkIndex(pc) == ((pc - Len(LLAMACPP_PROLOGUE) - 1) \div Len(LLAMACPP_ROUND)) + 1

\* launch_llamacpp_playroom after a loop has ended: before the first
\* iteration the rest of the first with block (os.makedirs of the mirror)
\* and its exit, which closes the tunnel; then the link of one item.
Relink ==
    /\ At("relink")
    /\ LET k == RelinkIndex(ctl.pc)
           m == IF k = 1 THEN MakeDirs(fs, MIRROR) ELSE [ok |-> TRUE, fs |-> fs]
           r == IF m.ok THEN PersistItem(m.fs, LLAMACPP_RELINK_ITEMS[k], TRUE) ELSE m
       IN /\ fs' = r.fs
          /\ ctl' = [Stepped(ctl, "relink", r.ok) EXCEPT !.tunnel = FALSE]
    /\ UNCHANGED <<idleVars, archive, rt>>

\* The hook of launch_llamacpp_playroom, create_llama_backup, archives
\* /opt/models/unsloth into /data/llama_backup.tar.gz; every other hook
\* archives /root into /data/root_full_backup.tar.gz.
HookArchivesHome(flavor) == flavor # "devbox_llamacpp"

\* The function has raised or returned: the interpreter exits and runs the
\* registered exit hook, if any.
ProcessExit ==
    /\ ctl.status \in {"raised", "returned"}
    /\ \E tarOk \in BOOLEAN, started \in BOOLEAN :
         /\ archive' = IF ctl.hook /\ HookArchivesHome(ctl.flavor)
                       THEN CreateBackup(fs, archive, HOME, tarOk, started)
                       ELSE archive
         /\ ctl' = [ctl EXCEPT !.status = "exited",
                               !.backups = IF ctl.hook THEN @ + 1 ELSE @,
                               !.exitArchive = archive,
                               !.backupFailed = ctl.hook /\ ~tarOk]
    /\ UNCHANGED <<idleVars, fs, rt>>

\* The box is launched again: a new container of the same image, with the
\* volume as the last one left it.
NextSession ==
    /\ ctl.status = "exited"
    /\ ctl.session < MaxSessions
    /\ fs' = Graft([q \in {r \in DOMAIN fs : IsPrefix(DATA, r)} |-> fs[q]] @@ BaseFs,
                   HOME, ctl.image)
    /\ ctl' = [NewSession(ctl.flavor, ctl.devbox_type, ctl.image,
                          ctl.session + 1, archive)
                 EXCEPT !.written = ctl.written]
    /\ UNCHANGED <<idleVars, archive, rt>>

Next ==
    \/ Restore \/ OverlayStep \/ Register \/ Inject \/ Packages \/ Xfce
    \/ Service \/ Tunnel \/ IdleEntry \/ IdleTimeout \/ Download \/ Relink
    \/ ProcessExit \/ NextSession

Spec == Init /\ [][Next]_vars

(***************************************************************************)
(* The sessions with a user who writes through the home-side path of an    *)
(* item while the tunnel is open (SpecPersist).                            *)
(***************************************************************************)
MARK == <<"m">>

NOTE == <<"note">>

\* Where a path under the home directory leads: through the link, if the
\* entry is one.
Through(f, p) == IF IsLink(f, p) THEN f[p].target ELSE p

\* The user writes MARK through the home-side path of an item: into the
\* file of that name (created if missing, also at the far end of a
\* dangling link), or into a file below it when it is a directory.  rel
\* is what was written, relative to the item.
WriteThrough(f, item) ==
    LET base == Through(f, HOME \o item) IN
    IF IsRealDir(f, base)
    THEN [ok |-> TRUE, rel |-> NOTE, fs |-> Put(f, base \o NOTE, File(MARK))]
    ELSE IF IsDir(f, Parent(base)) /\ ~IsLink(f, base)
    THEN [ok |-> TRUE, rel |-> <<>>, fs |-> Put(f, base, File(MARK))]
    ELSE [ok |-> FALSE, rel |-> <<>>, fs |-> f]

\* What was written is read back through the same home-side path.
Readable(f, w) ==
    LET q == Through(f, HOME \o w.item) \o w.rel IN
    LExists(f, q) /\ f[q] = File(MARK)

UserWrite ==
    /\ ctl.status = "running"
    /\ ctl.tunnel
    /\ ctl.session = 1
    /\ Cardinality(ctl.written) < MaxWrites
    /\ \E i \in 1..Len(ProfileOf(ctl.flavor, ctl.devbox_type)) :
         LET item == ProfileOf(ctl.flavor, ctl.devbox_type)[i]
             r == WriteThrough(fs, item)
         IN /\ r.ok
            /\ fs' = r.fs
            /\ ctl' = [ctl EXCEPT !.written = @ \cup {[item |-> item, rel |-> r.rel]}]
    /\ UNCHANGED <<idleVars, archive, rt>>

\* The box's first launch finds a fresh volume: no archive yet.
InitPersist == Init /\ ~archive.exists

NextPersist == Next \/ UserWrite

SpecPersist == InitPersist /\ [][NextPersist]_vars

(***************************************************************************)
(* SpecOverlay: the overlay of a flavor run again and again on one home    *)
(* directory (setup_persistence for the shared_runtime.py controllers, the *)
(* inline loop for those of devbox.py).                                    *)
(***************************************************************************)
InitOverlay ==
    /\ IdleOff
    /\ ctl = <<>>
    /\ archive = NoArchive
    /\ \E t \in Trees(MaxTreeEntries), flavor \in Flavors :
         \E devbox_type \in TypesOf(flavor) :
            /\ fs = Graft(BaseFs, HOME, t)
            /\ rt = [phase |-> "overlay", flavor |-> flavor,
                     devbox_type |-> devbox_type, runs |-> 0, oks |-> <<>>,
                     first |-> Graft(BaseFs, HOME, t),
                     before |-> Graft(BaseFs, HOME, t)]

\* One run of the overlay; a run that raises leaves what it had done.
OverlayRun ==
    /\ rt.phase = "overlay"
    /\ rt.runs < MaxOverlayRuns
    /\ LET r == Overlay(fs, rt.flavor, rt.devbox_type) IN
         /\ fs' = r.fs
         /\ rt' = [rt EXCEPT !.runs = @ + 1, !.oks = Append(@, r.ok), !.before = fs]
    /\ UNCHANGED <<idleVars, archive, ctl>>

NextOverlay == OverlayRun

SpecOverlay == InitOverlay /\ [][NextOverlay]_vars

(***************************************************************************)
(* Claims about the overlay, the startup order and the credential          *)
(* bootstrap, under Spec.                                                  *)
(***************************************************************************)
\* The position of a step in the session's log, 0 when it has not begun.
LogPos(step) ==
    IF \E i \in 1..Len(ctl.log) : ctl.log[i].step = step
    THEN CHOOSE i \in 1..Len(ctl.log) :
            /\ ctl.log[i].step = step
            /\ \A j \in 1..(i - 1) : ctl.log[j].step # step
    ELSE 0

HasStep(flavor, step) == \E i \in 1..Len(Steps(flavor)) : Steps(flavor)[i] = step

\* The paths of the session's profile that the archive it started with
\* holds as a plain file or a plain directory.
PlainInArchive(c) ==
    {item \in {ProfileOf(c.flavor, c.devbox_type)[i] :
                 i \in 1..Len(ProfileOf(c.flavor, c.devbox_type))} :
        /\ c.archive0.exists
        /\ item \in DOMAIN c.archive0.members
        /\ c.archive0.members[item].kind \in {"file", "dir"}}

\* C1: for every built-in profile and every initial state of the home-side
\* paths, once setup_persistence has been called it has returned, and each
\* item's home-side path is a symbolic link to the matching mirror-side
\* path.
C1_OverlayPostcondition ==
    (/\ ctl.flavor = "shared_ssh"
     /\ ctl.devbox_type \in BuiltinTypes
     /\ LogPos("overlay") > 0) =>
        /\ ctl.log[LogPos("overlay")].ok
        /\ \A i \in 1..Len(get_persistence_items(ctl.devbox_type)) :
              IsMirrorLink(fs, get_persistence_items(ctl.devbox_type)[i])

\* C3: when the archive holds a plain file or directory at a path of the
\* active profile, that home-side path is a link into the mirror once the
\* startup sequence has run up to the open tunnel, in every flavor.
C3_RestoredItemIsLinked ==
    ctl.tunnel => \A item \in PlainInArchive(ctl) : IsMirrorLink(fs, item)

\* C4: in every flavor the startup steps begin in the order restore,
\* overlay, credential bootstrap, packages, service, idle loop.
StartupRank(step) ==
    CASE step = "restore"  -> 1
      [] step = "overlay"  -> 2
      [] step = "inject"   -> 3
      [] step = "packages" -> 4
      [] step = "service"  -> 5
      [] step = "idle"     -> 6
      [] OTHER             -> 0

C4_StrictStartupOrder ==
    \A i \in 1..Len(ctl.log), j \in 1..Len(ctl.log) :
        (/\ i < j
         /\ StartupRank(ctl.log[i].step) > 0
         /\ StartupRank(ctl.log[j].step) > 0) =>
            StartupRank(ctl.log[i].step) < StartupRank(ctl.log[j].step)

\* C5: in every flavor that performs a restore, the restore has completed
\* before the overlay begins, and until it has completed no path of the
\* profile has been linked into the mirror.
C5_RestoreBeforeOverlay ==
    HasStep(ctl.flavor, "restore") =>
        /\ LogPos("overlay") > 0 =>
              /\ LogPos("restore") > 0
              /\ LogPos("restore") < LogPos("overlay")
        /\ LogPos("restore") = 0 =>
              \A i \in 1..Len(ProfileOf(ctl.flavor, ctl.devbox_type)) :
                 ~IsMirrorLink(fs, ProfileOf(ctl.flavor, ctl.devbox_type)[i])

C5_Witness ==
    /\ ctl.flavor = "devbox_ssh"
    /\ ctl.archive0.exists
    /\ LogPos("overlay") > 0
    /\ ctl.log[LogPos("overlay")].ok
    /\ IsMirrorLink(fs, <<".bashrc">>)

\* C6: in every flavor the credential bootstrap begins only after the
\* restore (where there is one) has completed, and the key it wrote stays
\* in the authorized-key file for the rest of the session.
C6_InjectAfterRestore ==
    /\ (HasStep(ctl.flavor, "restore") /\ LogPos("inject") > 0) =>
          /\ LogPos("restore") > 0
          /\ LogPos("restore") < LogPos("inject")
    /\ ctl.injected =>
          /\ LExists(fs, AUTH_KEYS)
          /\ fs[AUTH_KEYS].kind = "file"
          /\ IsSubstring(ctl.pubkey, fs[AUTH_KEYS].content)

C6_Witness ==
    /\ ctl.injected
    /\ ctl.archive0.exists
    /\ LogPos("restore") > 0
    /\ ctl.tunnel

\* C17: when the archive exists and its extraction fails, restore_backup
\* returns normally and the controller goes on through overlay,
\* credential bootstrap and service start into the idle loop: after a
\* failed extraction the only step at which a session may stop is a
\* failing package installation.
C17_RestoreFailureNotFatal ==
    (ctl.restoreFailed /\ DOMAIN ctl.image = {}) =>
        /\ ctl.log[LogPos("restore")].ok
        /\ ctl.status # "running" =>
              \/ ctl.log[Len(ctl.log)].step = "packages"
              \/ (LogPos("idle") > 0 /\ ctl.log[LogPos("idle")].ok)

C21_PackageFailureAborts ==
    ctl.aptFailed =>
        /\ ctl.status # "running"
        /\ ~ctl.service
        /\ ~ctl.tunnel
        /\ LogPos("service") = 0
        /\ LogPos("tunnel") = 0
        /\ LogPos("idle") = 0

C21_Witness ==
    /\ ctl.aptFailed
    /\ ctl.status = "exited"
    /\ ctl.log[Len(ctl.log)] = [step |-> "packages", ok |-> FALSE]

\* C23: from the completion of the overlay until process exit every item
\* of the profile stays a link into the mirror: no later step replaces it
\* with a plain file or directory.
C23_OverlayInvariantKept ==
    (LogPos("overlay") > 0 /\ ctl.log[LogPos("overlay")].ok) =>
        \A i \in 1..Len(ProfileOf(ctl.flavor, ctl.devbox_type)) :
            IsMirrorLink(fs, ProfileOf(ctl.flavor, ctl.devbox_type)[i])

\* C24: when the credential bootstrap fails for want of a key, the
\* controller raises nothing for it and goes on through the remaining
\* steps into the idle loop: after such a bootstrap the only step at which
\* a session may stop is a failing package installation (the image's
\* home directory is empty, so that no file-system error interferes).
C24_MissingKeyNotFatal ==
    (LogPos("inject") > 0 /\ ctl.pubkey = <<>> /\ DOMAIN ctl.image = {}) =>
        /\ ctl.log[LogPos("inject")].ok
        /\ ~ctl.injected
        /\ ctl.status # "running" =>
              \/ ctl.log[Len(ctl.log)].step = "packages"
              \/ (LogPos("idle") > 0 /\ ctl.log[LogPos("idle")].ok)

\* C27: a startup that meets no failure (nothing to restore, an empty home
\* directory in the image, a key to inject, no failing package
\* installation or download) does not stop before the idle loop: no step up to it
\* raises.
C27_CleanStartupReachesLoop ==
    (/\ ~ctl.archive0.exists
     /\ DOMAIN ctl.image = {}
     /\ ~ctl.aptFailed
     /\ (LogPos("inject") > 0 => ctl.injected)
     /\ (LogPos("download") > 0 => ctl.log[LogPos("download")].ok)) =>
        \A i \in 1..Len(ctl.log) : ctl.log[i].ok

\* C29: a run has one idle loop: once a loop has ended on its timeout the
\* function returns, with no further service start, tunnel or loop.
C29_OneIdleLoopPerRun ==
    \A i \in 1..Len(ctl.log) :
        ctl.log[i].step = "timeout" =>
            /\ i = Len(ctl.log)
            /\ ctl.status \in {"returned", "exited"}
            /\ Cardinality({j \in 1..Len(ctl.log) : ctl.log[j].step = "idle"}) = 1

\* C33: a backup that fails does not damage the archive of the previous
\* session: after the exit hook the archive file is the previous archive,
\* unchanged, or the complete archive of the home directory.
C33_FailedBackupKeepsArchive ==
    (/\ ctl.status = "exited"
     /\ ctl.backupFailed
     /\ HookArchivesHome(ctl.flavor)
     /\ ctl.exitArchive.exists /\ ctl.exitArchive.complete) =>
        \/ archive = ctl.exitArchive
        \/ archive = Archive(TarCreate(fs, HOME))

\* C34: the exit hook is registered before the packages are installed: a
\* startup that a failing package installation aborts is followed by one
\* run of the backup at process exit, while a startup that the overlay
\* aborts, before the registration, is followed by none and the archive is
\* left as it was.
C34_HookRegisteredBeforePackages ==
    /\ LogPos("packages") > 0 =>
          (LogPos("register") > 0 /\ LogPos("register") < LogPos("packages"))
    /\ (ctl.status = "exited" /\ ctl.aptFailed) =>
          (ctl.hook /\ ctl.backups = 1)
    /\ (/\ ctl.status = "exited"
        /\ ctl.log[Len(ctl.log)] = [step |-> "overlay", ok |-> FALSE]) =>
          (~ctl.hook /\ ctl.backups = 0 /\ archive = ctl.exitArchive)

C34_Witness ==
    /\ ctl.status = "exited"
    /\ ctl.aptFailed
    /\ ctl.backups = 1
    /\ ctl.exitArchive = NoArchive
    /\ archive.exists /\ archive.complete

\* C31: the item list handed to the overlay matches the launch: a desktop
\* launch, with or without a GPU type, gets the desktop list, an inference
\* launch the "llm" list and a terminal launch the "ssh" list.
C31_ProfileMatchesLaunch ==
    (ctl.flavor = "shared_ssh" /\ LogPos("overlay") > 0) =>
        /\ ctl.devbox_type \in {RdpPersistenceType(g) : g \in RdpGpuTypes} =>
              ProfileOf(ctl.flavor, ctl.devbox_type) = RDP_PERSISTENCE_ITEMS
        /\ ctl.devbox_type = "llm" =>
              ProfileOf(ctl.flavor, ctl.devbox_type) = LLM_PERSISTENCE_ITEMS
        /\ ctl.devbox_type = "ssh" =>
              ProfileOf(ctl.flavor, ctl.devbox_type) = SSH_PERSISTENCE_ITEMS

RunItems ==
    {ProfileOf(rt.flavor, rt.devbox_type)[i] :
        i \in 1..Len(ProfileOf(rt.flavor, rt.devbox_type))}

\* C14: setup_persistence run a second time raises no error and leaves the
\* home-side links and the mirror as the first run left them.
C14_OverlayIdempotent ==
    (rt.flavor \in SharedFlavors /\ rt.runs = 2) =>
        /\ rt.oks[2]
        /\ fs = rt.before

\* C15: setup_persistence never raises to its caller, and every item whose
\* own processing can succeed (the parent of its home-side path is a
\* directory) ends as a link into the mirror, whatever happened to the
\* items before it.
C15_ItemFailureIsContained ==
    (rt.flavor \in SharedFlavors /\ rt.runs >= 1) =>
        /\ rt.oks[rt.runs]
        /\ \A item \in RunItems :
              IsDir(rt.first, Parent(HOME \o item)) => IsMirrorLink(fs, item)

\* C16: what was at an item's home-side path as a real file or a real
\* directory before the overlay ran is not lost by it: the entry is at
\* the mirror-side path (where the new link leads) or, when the overlay
\* did not get to the item, still at the home-side path.
C16_ContentPreserved ==
    rt.runs = 1 =>
        \A item \in RunItems :
            (/\ LExists(rt.first, HOME \o item)
             /\ rt.first[HOME \o item].kind \in {"file", "dir"}) =>
                \/ /\ LExists(fs, MIRROR \o item)
                   /\ fs[MIRROR \o item] = rt.first[HOME \o item]
                   /\ TreeAt(fs, MIRROR \o item) = TreeAt(rt.first, HOME \o item)
                \/ /\ LExists(fs, HOME \o item)
                   /\ fs[HOME \o item] = rt.first[HOME \o item]
                   /\ TreeAt(fs, HOME \o item) = TreeAt(rt.first, HOME \o item)

RECURSIVE CountFrom(_, _, _)
CountFrom(k, str, i) ==
    IF i + Len(k) - 1 > Len(str) THEN 0
    ELSE IF SubSeq(str, i, i + Len(k) - 1) = k
         THEN 1 + CountFrom(k, str, i + Len(k))
         ELSE CountFrom(k, str, i + 1)

\* PUBKEY without the whitespace around it.
KeyOf(env) ==
    LET idx == {i \in 1..Len(env) : env[i] \notin Whitespace} IN
    IF idx = {} THEN <<>>
    ELSE SubSeq(env, CHOOSE i \in idx : \A j \in idx : i <= j,
                     CHOOSE i \in idx : \A j \in idx : i >= j)

\* C11: when authorized_keys held the key at most once at first, then after
\* any number (>= 1) of completed calls with that key it holds the key
\* exactly once; a call made while the key is in the file appends nothing.
C11_OneOccurrence ==
    (/\ rt.calls >= 1
     /\ rt.allOk
     /\ CountFrom(KeyOf(rt.env), KeyFileContent(rt.first), 1) <= 1) =>
        /\ CountFrom(KeyOf(rt.env), KeyFileContent(fs), 1) = 1
        /\ CountFrom(KeyOf(rt.env), KeyFileContent(rt.before), 1) >= 1 =>
              KeyFileContent(fs) = KeyFileContent(rt.before)

C11_Witness ==
    /\ rt.calls >= 2
    /\ rt.allOk
    /\ KeyFileContent(rt.first) = <<"o">>
    /\ CountFrom(KeyOf(rt.env), KeyFileContent(fs), 1) = 1

\* C12: after every call that completes, appended or not, authorized_keys
\* has mode 0600, /root/.ssh has mode 0700 and the file holds the key.
C12_ModesAfterInject ==
    (rt.calls >= 1 /\ rt.ok) =>
        /\ LExists(fs, AUTH_KEYS)
        /\ fs[AUTH_KEYS].kind = "file"
        /\ fs[AUTH_KEYS].mode = MODE_AUTH_KEYS
        /\ fs[SSH_DIR].kind = "dir"
        /\ fs[SSH_DIR].mode = MODE_SSH_DIR
        /\ CountFrom(KeyOf(rt.env), fs[AUTH_KEYS].content, 1) >= 1

C12_Witness ==
    /\ rt.calls = 1
    /\ rt.ok
    /\ LExists(rt.before, AUTH_KEYS)
    /\ rt.before[AUTH_KEYS].mode = 644
    /\ rt.before[SSH_DIR].mode = 755
    /\ KeyFileContent(fs) = KeyFileContent(rt.before)

\* C13: with PUBKEY unset, empty or only whitespace a call returns False
\* and changes nothing in the file system.
C13_EmptyKeyIsRejected ==
    (rt.calls >= 1 /\ KeyOf(rt.env) = <<>>) =>
        /\ ~rt.ok
        /\ fs = rt.before
        /\ fs = rt.first

C13_Witness ==
    /\ rt.calls >= 1
    /\ rt.env = <<"\n", " ">>
    /\ ~LExists(fs, SSH_DIR)

(***************************************************************************)
(* Claims about the idle monitor (checked under SpecIdle).                 *)
(***************************************************************************)

\* C7: while no session has been detected on any tick, the idle counter is
\* the check interval times the number of ticks, and the loop has returned
\* exactly when the counter has reached the timeout: with interval 15 and
\* timeout 300, on tick 20 and on no earlier tick.
C7_NoSessionCountsToTimeout ==
    (ipc \in {"loop", "returned"} /\ sinceDetect = ticks) =>
        /\ idle_time = ticks * CheckInterval(loop)
        /\ (ipc = "returned") = (idle_time >= IDLE_TIMEOUT_SECONDS)
        /\ (ipc = "returned") = (ticks = 20)

C7_Witness == ipc = "returned" /\ sinceDetect = ticks /\ ticks = 20

\* C8: a tick that detects a session leaves the idle counter at 0, and the
\* loop has not returned unless timeout/interval consecutive no-session
\* ticks have passed since the most recent detection.
C8_DetectionResetsAndDelays ==
    /\ lastTick.kind = "session" => (idle_time = 0 /\ ipc = "loop")
    /\ ipc = "returned" =>
          sinceDetect >= IDLE_TIMEOUT_SECONDS \div CheckInterval(loop)

C8_Witness == ipc = "returned" /\ sinceDetect < ticks

\* C9: the idle counter is always a non-negative multiple of the check
\* interval.
C9_IdleMultipleOfInterval ==
    /\ idle_time \in Nat
    /\ idle_time % CheckInterval(loop) = 0

C9_Witness ==
    /\ loop = "rdp" /\ sinceDetect < ticks
    /\ idle_time >= 2 * CheckInterval(loop)

\* C10: a tick whose probe failed (command error, unparseable output, or
\* the call raising) leaves the loop running with the check interval added
\* to the idle counter.
C10_ProbeFailureAbsorbed ==
    lastTick.outcome \in {"cmd_error", "garbled", "raise"} =>
        /\ ipc # "raised"
        /\ idle_time = lastTick.before + CheckInterval(loop)

\* C28: in the desktop loop a probe that ran while no desktop session was
\* attached yields the count 0: the tick is counted as idle, so that an
\* unattended desktop container advances towards the timeout.
C28_UnattachedProbeIsIdle ==
    (loop = "rdp" /\ lastTick.outcome = "ok" /\ lastTick.attached = 0) =>
        /\ lastTick.kind = "idle"
        /\ idle_time = lastTick.before + CheckInterval("rdp")

(***************************************************************************)
(* A claim about the sessions that needs the occurrence count (Spec).      *)
(***************************************************************************)
\* C35: when the key input is set, then at the start of the remote-access
\* service authorized_keys exists under the home directory as a file of
\* mode 0600 that holds the key exactly once, in every session.
C35_KeyInPlaceAtServiceStart ==
    (/\ Len(ctl.log) > 0
     /\ ctl.log[Len(ctl.log)] = [step |-> "service", ok |-> TRUE]
     /\ ctl.flavor \in {"shared_ssh", "shared_rdp", "devbox_ssh", "devbox_rdp"}
     /\ ctl.pubkey # <<>>) =>
        /\ LExists(fs, AUTH_KEYS)
        /\ fs[AUTH_KEYS].kind = "file"
        /\ fs[AUTH_KEYS].mode = MODE_AUTH_KEYS
        /\ CountFrom(ctl.pubkey, fs[AUTH_KEYS].content, 1) = 1

C35_Witness ==
    /\ ctl.session = 2
    /\ ctl.flavor = "devbox_ssh"
    /\ ctl.archive0.exists /\ ctl.archive0.complete
    /\ <<".ssh", "authorized_keys">> \in DOMAIN ctl.archive0.members
    /\ Len(ctl.log) > 0
    /\ ctl.log[Len(ctl.log)] = [step |-> "service", ok |-> TRUE]
    /\ ctl.pubkey = <<"k">>
    /\ LExists(fs, AUTH_KEYS)
    /\ fs[AUTH_KEYS].content = <<"k", "\n">>

(***************************************************************************)
(* Claims about the parametric idle monitor (checked under SpecIdleParam). *)
(***************************************************************************)
\* C30: for every positive check interval I and timeout T, a multiple of
\* I or not, the loop returns with T <= idle_time < T + I, and no tick
\* computes a remaining time below -(I - 1).
C30_OvershootBelowInterval ==
    /\ ipc = "returned" =>
          /\ rt.timeout <= idle_time
          /\ idle_time < rt.timeout + rt.interval
    /\ rt.printed =>
          rt.remaining >= -(rt.interval - 1)

C30_Witness ==
    /\ ipc = "returned"
    /\ rt.timeout % rt.interval # 0
    /\ idle_time > rt.timeout
    /\ rt.printed /\ rt.remaining = -(rt.interval - 1)
    /\ sinceDetect < ticks

(***************************************************************************)
(* Claims about the archiver (checked under SpecArchive).                  *)
(***************************************************************************)

\* C2: round trip.  After the backup of a home directory tree T has been
\* written and restore_backup() has extracted all of it in a container whose
\* home directory was empty, the home directory holds exactly the entries
\* and contents of T, but for lost+found.
C2_RoundTrip ==
    (/\ rt.phase = "restored"
     /\ rt.restoreDir = RESTORE_DIR_DEFAULT
     /\ rt.backupOk /\ rt.emptyHome /\ rt.allExtracted) =>
        WithoutLostFound(TreeAt(fs, HOME)) = WithoutLostFound(rt.tree)

\* C18: when the archive exists and its extraction fails, the home
\* directory afterwards still holds what the container image put there.
C18_FailedRestoreKeepsImage ==
    (rt.phase = "restored" /\ rt.extractFailed) =>
        TreeAt(fs, HOME) = rt.image

\* C19: create_backup never raises; when the archive command fails it
\* returns None, and the process goes on to terminate.
C19_BackupNeverRaises ==
    rt.phase # "session" =>
        /\ ~rt.backupReturn.raised
        /\ ~rt.backupOk => rt.backupReturn.value = "None"

C19_Witness ==
    /\ rt.phase = "backed_up"
    /\ ~rt.backupOk
    /\ rt.backupReturn.value = "None"
    /\ archive = TruncatedArchive

\* C22: restore_backup leaves the archive file as it was, after a
\* successful and after a failed restore, and without an archive it
\* changes nothing.
C22_RestoreKeepsArchive ==
    rt.phase = "restored" =>
        /\ archive = rt.archiveBefore
        /\ ~rt.archiveBefore.exists => fs = rt.before

\* C26: for every restore_dir, what restore_backup clears is the directory
\* it extracts into: no entry outside restore_dir is removed, what stays
\* below restore_dir is its lost+found or comes from the archive, and
\* lost+found is kept.
C26_ClearsTheTarget ==
    (rt.phase = "restored" /\ rt.archiveBefore.exists) =>
        LET d == rt.restoreDir
            n == Len(rt.restoreDir)
        IN /\ \A p \in DOMAIN rt.before \ DOMAIN fs : IsPrefix(d, p) /\ Len(p) > n
           /\ \A p \in DOMAIN fs :
                 (IsPrefix(d, p) /\ Len(p) > n /\ p \in DOMAIN rt.before) =>
                    \/ p[n + 1] = LOST_FOUND
                    \/ SubSeq(p, n + 1, Len(p)) \in DOMAIN rt.archiveBefore.members
           /\ (d \o <<LOST_FOUND>>) \in DOMAIN rt.before =>
                 (d \o <<LOST_FOUND>>) \in DOMAIN fs

====
